---- MODULE Spec2Model ----
(***************************************************************************)
(* Real-time presence and notification routing of ruenh/filesearch:        *)
(*   backend/websocket/presence.py  DocumentPresence (presence tracker)    *)
(*   backend/websocket/events.py    Socket.IO handlers, user_sessions      *)
(*                                  registry, notification dispatch        *)
(* Every Socket.IO handler is one action.  Identifiers are small positive  *)
(* integers; 0 stands for a missing field / Python None / empty string,    *)
(* all of which the handlers treat alike ("if not document_id").           *)
(* user_email travels exactly like user_name and joined_at is a timestamp  *)
(* nothing branches on; payload contents (position, operation, the         *)
(* notification data) are opaque.  None of these is modelled beyond         *)
(* present / absent.                                                        *)
(***************************************************************************)
EXTENDS Bags, FiniteSets, Integers, Sequences, TLC

\* ---- bounds ----
NumSessions == 2
NumDocuments == 2
NumUsers == 2
NumNames == 1
NumThreads == 2
MaxEvents == 6
MaxCalls == 4

Sessions == 1..NumSessions
Documents == 1..NumDocuments
Users == 1..NumUsers
Names == 1..NumNames
Threads == 1..NumThreads

None == 0

VARIABLES
    document_users,     \* presence._document_users: document_id -> set of <<user_id, session_id>>
    session_info,       \* presence._session_info: session_id -> [user_id, user_name]
    session_documents,  \* presence._session_documents: session_id -> set of document_id
    user_sessions,      \* events.user_sessions: user_id -> set of session_id
    rooms,              \* Socket.IO rooms 'document:<id>': document_id -> set of session_id
    conn,               \* transport state of each session id: "new", "connected", "closed"
    last,               \* the inbound event (or dispatcher call) handled by the last step
    result,             \* what the presence tracker returned to the last handler
    sent,               \* bag of the outbound events the last step delivered
    registered_pairs,   \* history: <<user_id, session_id>> pairs registered and not unregistered since
    joins,              \* history: <<document_id, session_id>> -> the [user_id, user_name] of the
                        \* session's latest join of the document, until it leaves or disconnects
    events,             \* number of inbound events and dispatcher calls handled so far
    locked,             \* presence._data_lock is held
    pc,                 \* where each handler thread is in its call of a DocumentPresence method
    call,               \* the DocumentPresence call each handler thread is making
    todo,               \* disconnect_session's local copy `documents`, what is left of its loop
    frame,              \* the local variables of each thread's dispatcher call: the set it
                        \* iterates (a reference into user_sessions or a set of its own)
                        \* and the state of its iterators
    returned,           \* what the tracker returned to each handler thread (other_users,
                        \* user_info, or what is left of left_documents)
    received            \* per connection, the room and reply events its handler threads'
                        \* emits delivered to it, in emission order

presenceVars == <<document_users, session_info, session_documents>>
stateVars == <<document_users, session_info, session_documents, user_sessions, rooms>>
threadVars == <<locked, pc, call, todo, frame, returned, received>>
vars == <<document_users, session_info, session_documents, user_sessions, rooms,
          conn, last, result, sent, registered_pairs, joins, events, threadVars>>

\* ---- Python dict operations ----
DictSet(f, k, v) == [x \in (DOMAIN f) \cup {k} |-> IF x = k THEN v ELSE f[x]]
DictDel(f, k) == [x \in (DOMAIN f) \ {k} |-> f[x]]
DictGet(f, k, default) == IF k \in DOMAIN f THEN f[k] ELSE default
EmptyDict == [x \in {} |-> {}]

\* ---- values handed between tracker and handlers ----
NoInfo == [user_id |-> None, user_name |-> None]
NoTuple == <<None, None>>
NoResult == [user_info |-> NoInfo, left_documents |-> {}, other_users |-> {}]

\* ---- outbound events ----
Ev(event, document_id, user_id, session_id, users) ==
    [to |-> None, event |-> event, document_id |-> document_id,
     user_id |-> user_id, session_id |-> session_id, users |-> users]

Live == {s \in Sessions : conn[s] = "connected"}

\* emit(event, data): to the calling session only
\* an emit with broadcast=True
emit_self_broadcast(sid, e) == SetToBag({[e EXCEPT !.to = r] : r \in Live})

emit_self(sid, e) == SetToBag({[e EXCEPT !.to = sid]})

\* an emit without room=, which reaches every open connection
emit_room_broadcast(participants, live, e) ==
    SetToBag({[e EXCEPT !.to = r] : r \in live})

\* emit(event, data, room=room): every live participant of the room
emit_room(participants, live, e) ==
    SetToBag({[e EXCEPT !.to = r] : r \in participants \cap live})

\* a room emit that leaves include_self at its default
emit_room_include_self(participants, live, sid, e) == emit_room(participants, live, e)

\* emit(event, data, room=room, include_self=False): skip_sid = request.sid
emit_room_skip(participants, live, sid, e) ==
    SetToBag({[e EXCEPT !.to = r] : r \in (participants \cap live) \ {sid}})

\* ---- DocumentPresence ----
\* a member listing that ignores exclude_session
_get_document_users_with_self(du, si, document_id, exclude_session) ==
    IF document_id \in DOMAIN du
    THEN {[user_id |-> t[1], session_id |-> t[2],
           user_name |-> DictGet(si, t[2], NoInfo).user_name] : t \in du[document_id]}
    ELSE {}

_get_document_users(du, si, document_id, exclude_session) ==
    IF document_id \in DOMAIN du
    THEN {[user_id |-> t[1], session_id |-> t[2],
           user_name |-> DictGet(si, t[2], NoInfo).user_name] :
            t \in {x \in du[document_id] :
                     ~(exclude_session # None /\ x[2] = exclude_session)}}
    ELSE {}

\* a join whose user tuple also carries the time of the join (the event count)
join_document_timestamped(du, si, sd, document_id, user_id, session_id, user_name) ==
    LET du1 == IF document_id \notin DOMAIN du THEN DictSet(du, document_id, {}) ELSE du
        du2 == DictSet(du1, document_id,
                       du1[document_id] \cup {<<user_id, session_id, events>>})
        si2 == DictSet(si, session_id, [user_id |-> user_id, user_name |-> user_name])
        sd1 == IF session_id \notin DOMAIN sd THEN DictSet(sd, session_id, {}) ELSE sd
        sd2 == DictSet(sd1, session_id, sd1[session_id] \cup {document_id})
    IN  [document_users |-> du2, session_info |-> si2, session_documents |-> sd2,
         ret |-> _get_document_users(du2, si2, document_id, session_id)]

\* a join that records the tuple and the index but stores no session info
join_document_without_info(du, si, sd, document_id, user_id, session_id, user_name) ==
    LET du1 == IF document_id \notin DOMAIN du THEN DictSet(du, document_id, {}) ELSE du
        du2 == DictSet(du1, document_id, du1[document_id] \cup {<<user_id, session_id>>})
        sd1 == IF session_id \notin DOMAIN sd THEN DictSet(sd, session_id, {}) ELSE sd
        sd2 == DictSet(sd1, session_id, sd1[session_id] \cup {document_id})
    IN  [document_users |-> du2, session_info |-> si, session_documents |-> sd2,
         ret |-> _get_document_users(du2, si, document_id, session_id)]

join_document(du, si, sd, document_id, user_id, session_id, user_name) ==
    LET du1 == IF document_id \notin DOMAIN du THEN DictSet(du, document_id, {}) ELSE du
        du2 == DictSet(du1, document_id, du1[document_id] \cup {<<user_id, session_id>>})
        si2 == DictSet(si, session_id, [user_id |-> user_id, user_name |-> user_name])
        sd1 == IF session_id \notin DOMAIN sd THEN DictSet(sd, session_id, {}) ELSE sd
        sd2 == DictSet(sd1, session_id, sd1[session_id] \cup {document_id})
    IN  [document_users |-> du2, session_info |-> si2, session_documents |-> sd2,
         ret |-> _get_document_users(du2, si2, document_id, session_id)]

\* The tuples the scan "for user_tuple in ...: if user_tuple[1] == session_id: break"
\* can stop at: set iteration order is arbitrary, so any matching tuple.
ToRemoveChoices(du, document_id, session_id) ==
    LET found == IF document_id \in DOMAIN du
                 THEN {t \in du[document_id] : t[2] = session_id}
                 ELSE {}
    IN  IF found = {} THEN {NoTuple} ELSE found

\* a removal that leaves the emptied room in the index
RemoveTuple_keeps_empty_room(du, document_id, to_remove) ==
    IF document_id \in DOMAIN du /\ to_remove # NoTuple
    THEN DictSet(du, document_id, du[document_id] \ {to_remove})
    ELSE du

RemoveTuple(du, document_id, to_remove) ==
    IF document_id \in DOMAIN du /\ to_remove # NoTuple
    THEN LET rest == du[document_id] \ {to_remove}
         IN  IF rest = {} THEN DictDel(du, document_id)
             ELSE DictSet(du, document_id, rest)
    ELSE du

leave_document(du, si, sd, document_id, session_id, to_remove) ==
    LET user_info == DictGet(si, session_id, NoInfo)
        du2 == RemoveTuple(du, document_id, to_remove)
        sd2 == IF session_id \in DOMAIN sd
               THEN LET docs == sd[session_id] \ {document_id}
                    IN  IF docs = {} THEN DictDel(sd, session_id)
                        ELSE DictSet(sd, session_id, docs)
               ELSE sd
    IN  [document_users |-> du2, session_info |-> si, session_documents |-> sd2,
         ret |-> user_info]

\* pick[d] is the tuple the scan of document d stops at
DisconnectPicks(du, sd, session_id) ==
    LET documents == DictGet(sd, session_id, {})
    IN  {p \in [documents -> (Users \X Sessions) \cup {NoTuple}] :
            \A d \in documents : p[d] \in ToRemoveChoices(du, d, session_id)}

\* a disconnect that forgets to delete the reverse-index entry
disconnect_session_keeps_index(du, si, sd, session_id, pick) ==
    LET user_info == DictGet(si, session_id, NoInfo)
        documents == DictGet(sd, session_id, {})
        removed == {d \in documents : d \in DOMAIN du /\ pick[d] # NoTuple}
        du2 == [d \in {x \in DOMAIN du :
                         x \notin removed \/ du[x] \ {pick[x]} # {}} |->
                  IF d \in removed THEN du[d] \ {pick[d]} ELSE du[d]]
    IN  [document_users |-> du2,
         session_info |-> DictDel(si, session_id),
         session_documents |-> sd,
         ret |-> {[document_id |-> d, user_info |-> user_info] : d \in removed}]

disconnect_session(du, si, sd, session_id, pick) ==
    LET user_info == DictGet(si, session_id, NoInfo)
        documents == DictGet(sd, session_id, {})
        removed == {d \in documents : d \in DOMAIN du /\ pick[d] # NoTuple}
        du2 == [d \in {x \in DOMAIN du :
                         x \notin removed \/ du[x] \ {pick[x]} # {}} |->
                  IF d \in removed THEN du[d] \ {pick[d]} ELSE du[d]]
    IN  [document_users |-> du2,
         session_info |-> DictDel(si, session_id),
         session_documents |-> DictDel(sd, session_id),
         ret |-> {[document_id |-> d, user_info |-> user_info] : d \in removed}]

get_document_users(du, si, document_id) == _get_document_users(du, si, document_id, None)

\* ---- user session registry ----
\* a register that replaces the user's set
register_replaces_sessions(us, user_id, session_id) == DictSet(us, user_id, {session_id})

register_user_session(us, user_id, session_id) ==
    LET us1 == IF user_id \notin DOMAIN us THEN DictSet(us, user_id, {}) ELSE us
    IN  DictSet(us1, user_id, us1[user_id] \cup {session_id})

\* an unregister that keeps the emptied entry
unregister_keeps_empty_entry(us, user_id, session_id) ==
    IF user_id \in DOMAIN us
    THEN DictSet(us, user_id, us[user_id] \ {session_id})
    ELSE us

\* an unregister that drops the user's whole entry
unregister_drops_user(us, user_id, session_id) ==
    IF user_id \in DOMAIN us THEN DictDel(us, user_id) ELSE us

unregister_user_session(us, user_id, session_id) ==
    IF user_id \in DOMAIN us
    THEN LET rest == us[user_id] \ {session_id}
         IN  IF rest = {} THEN DictDel(us, user_id) ELSE DictSet(us, user_id, rest)
    ELSE us

get_user_sessions(us, user_id) == DictGet(us, user_id, {})

\* the loop of handle_disconnect calls unregister_user_session once per left
\* document, each time with the same user id
RECURSIVE UnregisterAll(_, _, _)
UnregisterAll(us, user_ids, session_id) ==
    IF user_ids = {} THEN us
    ELSE LET u == CHOOSE x \in user_ids : TRUE
         IN  UnregisterAll(unregister_user_session(us, u, session_id), user_ids \ {u}, session_id)

\* the events of a loop of emit calls, one bag per iteration
RECURSIVE SumBags(_, _)
SumBags(f, S) ==
    IF S = {} THEN EmptyBag
    ELSE LET x == CHOOSE y \in S : TRUE
         IN  f[x] (+) SumBags(f, S \ {x})

\* ---- inbound events ----
\* payload: 1 when the position / operation field of the request is present;
\* repeat: the event repeats the one handled just before it, field by field
In(op, sid, document_id, user_id, user_name, payload) ==
    [op |-> op, sid |-> sid, document_id |-> document_id, user_id |-> user_id,
     user_name |-> user_name, payload |-> payload,
     repeat |-> /\ last.op = op /\ last.sid = sid /\ last.document_id = document_id
                /\ last.user_id = user_id /\ last.user_name = user_name
                /\ last.payload = payload]

\* ---- request validation ----
\* a check that forgets the user id
join_request_checks_document_only(document_id, user_id) == document_id = None

join_request_invalid(document_id, user_id) == document_id = None \/ user_id = None
\* a relay check that looks at document_id only
relay_request_checks_document_only(document_id, payload) == document_id = None

relay_request_invalid(document_id, payload) == document_id = None \/ payload = None
document_id_missing(document_id) == document_id = None
user_id_missing(user_id) == user_id = None

NoFrame == [alias |-> FALSE, user |-> None, value |-> {}, at_call |-> {}, it_size |-> 0,
            visited |-> {}, dsize |-> 0, dvisited |-> {}]
NoCall == [op |-> "none", document_id |-> None, user_id |-> None, session_id |-> None]

Init ==
    /\ document_users = EmptyDict
    /\ session_info = EmptyDict
    /\ session_documents = EmptyDict
    /\ user_sessions = EmptyDict
    /\ rooms = [d \in Documents |-> {}]
    /\ conn = [s \in Sessions |-> "new"]
    /\ last = [op |-> "init", sid |-> None, document_id |-> None, user_id |-> None,
               user_name |-> None, payload |-> None, repeat |-> FALSE]
    /\ result = NoResult
    /\ sent = EmptyBag
    /\ registered_pairs = {}
    /\ joins = EmptyDict
    /\ events = 0
    /\ locked = FALSE
    /\ pc = [t \in Threads |-> "idle"]
    /\ call = [t \in Threads |-> NoCall]
    /\ todo = [t \in Threads |-> {}]
    /\ frame = [t \in Threads |-> NoFrame]
    /\ returned = [t \in Threads |-> {}]
    /\ received = [s \in Sessions |-> <<>>]

\* one more event is handled; the model stops after MaxEvents of them.  The
\* handler runs to its end with no other handler thread in a tracker method
Tick == events < MaxEvents /\ events' = events + 1 /\ UNCHANGED threadVars

handle_connect(sid) ==
    /\ Tick
    /\ conn[sid] = "new"
    /\ conn' = [conn EXCEPT ![sid] = "connected"]
    /\ last' = In("connect", sid, None, None, None, None)
    /\ result' = NoResult
    /\ sent' = emit_self(sid, Ev("connected", None, None, sid, {}))
    /\ UNCHANGED <<stateVars, registered_pairs, joins>>

\* the transport invokes the disconnect handler for a connection it has
\* declared dead; once the handler returns it drops the sid from every room
handle_disconnect(sid) ==
    /\ Tick
    /\ conn[sid] = "connected"
    /\ \E pick \in DisconnectPicks(document_users, session_documents, sid) :
        LET r == disconnect_session(document_users, session_info, session_documents, sid, pick)
            left_documents == r.ret
            live == Live \ {sid}
            unreg == {p.user_info.user_id : p \in {x \in left_documents :
                        x.user_info # NoInfo /\ x.user_info.user_id # None}}
        IN  /\ document_users' = r.document_users
            /\ session_info' = r.session_info
            /\ session_documents' = r.session_documents
            /\ result' = [NoResult EXCEPT !.left_documents = left_documents]
            /\ sent' = SumBags([p \in left_documents |->
                          emit_room(rooms[p.document_id], live,
                                    Ev("user_left", p.document_id, p.user_info.user_id, sid, {}))],
                          left_documents)
            /\ user_sessions' = UnregisterAll(user_sessions, unreg, sid)
            /\ registered_pairs' = registered_pairs \ {<<u, sid>> : u \in unreg}
            /\ joins' = [k \in {x \in DOMAIN joins : x[2] # sid} |-> joins[k]]
    /\ rooms' = [d \in Documents |-> rooms[d] \ {sid}]
    /\ conn' = [conn EXCEPT ![sid] = "closed"]
    /\ last' = In("disconnect", sid, None, None, None, None)

handle_join_document(sid, document_id, user_id, user_name) ==
    /\ Tick
    /\ conn[sid] = "connected"
    /\ last' = In("join_document", sid, document_id, user_id, user_name, None)
    /\ IF join_request_invalid(document_id, user_id)
       THEN /\ sent' = emit_self(sid, Ev("error", None, None, None, {}))
            /\ result' = NoResult
            /\ UNCHANGED <<stateVars, joins>>
       ELSE LET room == rooms[document_id] \cup {sid}
                r == join_document(document_users, session_info, session_documents,
                                   document_id, user_id, sid, user_name)
            IN  /\ rooms' = [rooms EXCEPT ![document_id] = room]
                /\ document_users' = r.document_users
                /\ session_info' = r.session_info
                /\ session_documents' = r.session_documents
                /\ result' = [NoResult EXCEPT !.other_users = r.ret]
                /\ sent' = emit_self(sid, Ev("document_joined", document_id, None, None, r.ret))
                           (+) emit_room_skip(room, Live, sid,
                                   Ev("user_joined", document_id, user_id, sid, {}))
                /\ joins' = DictSet(joins, <<document_id, sid>>,
                                    [user_id |-> user_id, user_name |-> user_name])
                /\ UNCHANGED user_sessions
    /\ UNCHANGED <<conn, registered_pairs>>

handle_leave_document(sid, document_id) ==
    /\ Tick
    /\ conn[sid] = "connected"
    /\ last' = In("leave_document", sid, document_id, None, None, None)
    /\ IF document_id_missing(document_id)
       THEN /\ sent' = emit_self(sid, Ev("error", None, None, None, {}))
            /\ result' = NoResult
            /\ UNCHANGED <<stateVars, joins>>
       ELSE \E to_remove \in ToRemoveChoices(document_users, document_id, sid) :
            LET r == leave_document(document_users, session_info, session_documents,
                                    document_id, sid, to_remove)
                user_info == r.ret
                room == rooms[document_id] \ {sid}
            IN  /\ document_users' = r.document_users
                /\ session_info' = r.session_info
                /\ session_documents' = r.session_documents
                /\ rooms' = [rooms EXCEPT ![document_id] = room]
                /\ result' = [NoResult EXCEPT !.user_info = user_info]
                /\ sent' = (IF user_info # NoInfo
                            THEN emit_room(room, Live,
                                     Ev("user_left", document_id, user_info.user_id, sid, {}))
                            ELSE EmptyBag)
                           (+) emit_self(sid, Ev("document_left", document_id, None, None, {}))
                /\ joins' = DictDel(joins, <<document_id, sid>>)
                /\ UNCHANGED user_sessions
    /\ UNCHANGED <<conn, registered_pairs>>

handle_cursor_move(sid, document_id, position) ==
    /\ Tick
    /\ conn[sid] = "connected"
    /\ last' = In("cursor_move", sid, document_id, None, None, position)
    /\ sent' = IF relay_request_invalid(document_id, position)
               THEN EmptyBag
               ELSE emit_room_skip(rooms[document_id], Live, sid,
                        Ev("cursor_update", document_id, None, sid, {}))
    /\ result' = NoResult
    /\ UNCHANGED <<stateVars, conn, registered_pairs, joins>>

handle_edit_content(sid, document_id, operation) ==
    /\ Tick
    /\ conn[sid] = "connected"
    /\ last' = In("edit_content", sid, document_id, None, None, operation)
    /\ sent' = IF relay_request_invalid(document_id, operation)
               THEN emit_self(sid, Ev("error", None, None, None, {}))
               ELSE emit_room_skip(rooms[document_id], Live, sid,
                        Ev("content_update", document_id, None, sid, {}))
    /\ result' = NoResult
    /\ UNCHANGED <<stateVars, conn, registered_pairs, joins>>

handle_get_document_users(sid, document_id) ==
    /\ Tick
    /\ conn[sid] = "connected"
    /\ last' = In("get_document_users", sid, document_id, None, None, None)
    /\ IF document_id_missing(document_id)
       THEN /\ sent' = emit_self(sid, Ev("error", None, None, None, {}))
            /\ result' = NoResult
       ELSE LET users == get_document_users(document_users, session_info, document_id)
            IN  /\ sent' = emit_self(sid, Ev("document_users", document_id, None, None, users))
                /\ result' = [NoResult EXCEPT !.other_users = users]
    /\ UNCHANGED <<stateVars, conn, registered_pairs, joins>>

handle_ping(sid) ==
    /\ Tick
    /\ conn[sid] = "connected"
    /\ last' = In("ping", sid, None, None, None, None)
    /\ sent' = emit_self(sid, Ev("pong", None, None, None, {}))
    /\ result' = NoResult
    /\ UNCHANGED <<stateVars, conn, registered_pairs, joins>>

handle_register_user(sid, user_id) ==
    /\ Tick
    /\ conn[sid] = "connected"
    /\ last' = In("register_user", sid, None, user_id, None, None)
    /\ result' = NoResult
    /\ IF user_id_missing(user_id)
       THEN /\ sent' = emit_self(sid, Ev("error", None, None, None, {}))
            /\ UNCHANGED <<user_sessions, registered_pairs>>
       ELSE /\ user_sessions' = register_user_session(user_sessions, user_id, sid)
            /\ registered_pairs' = registered_pairs \cup {<<user_id, sid>>}
            /\ sent' = emit_self(sid, Ev("user_registered", None, user_id, sid, {}))
    /\ UNCHANGED <<presenceVars, rooms, conn, joins>>

handle_unregister_user(sid, user_id) ==
    /\ Tick
    /\ conn[sid] = "connected"
    /\ last' = In("unregister_user", sid, None, user_id, None, None)
    /\ result' = NoResult
    /\ IF ~user_id_missing(user_id)
       THEN /\ user_sessions' = unregister_user_session(user_sessions, user_id, sid)
            /\ registered_pairs' = registered_pairs \ {<<user_id, sid>>}
            /\ sent' = emit_self(sid, Ev("user_unregistered", None, user_id, None, {}))
       ELSE /\ sent' = EmptyBag
            /\ UNCHANGED <<user_sessions, registered_pairs>>
    /\ UNCHANGED <<presenceVars, rooms, conn, joins>>

\* outcome: what the persistence collaborator does with Document.query.get
\* and the file read: the document, no document, or an exception
Found == 1
NotFound == 2
ReadFailed == 3
SyncOutcomes == {Found, NotFound, ReadFailed}

handle_request_sync(sid, document_id, outcome) ==
    /\ Tick
    /\ conn[sid] = "connected"
    /\ last' = In("request_sync", sid, document_id, None, None, outcome)
    /\ result' = NoResult
    /\ sent' = IF document_id_missing(document_id)
               THEN emit_self(sid, Ev("error", None, None, None, {}))
               ELSE IF outcome = Found
                    THEN emit_self(sid, Ev("sync_response", document_id, None, None, {}))
                    ELSE emit_self(sid, Ev("error", None, None, None, {}))
    /\ UNCHANGED <<stateVars, conn, registered_pairs, joins>>

\* ---- notification dispatch (called by REST handlers, outside any connection) ----
\* socketio.emit('notification', data, room=session_id): the personal room of
\* a sid holds that sid while it is connected
\* a dispatch that, finding no session, emits with room=None, which Socket.IO
\* sends to every connection
notify_sessions_or_everyone(sessions, live, user_id) ==
    IF sessions = {}
    THEN emit_room(live, live, Ev("notification", None, user_id, None, {}))
    ELSE SumBags([s \in sessions |->
                    emit_room({s}, live, Ev("notification", None, user_id, None, {}))],
                 sessions)

\* a dispatch whose loop ends after its first emit
notify_sessions_first_only(sessions, live, user_id) ==
    IF sessions = {}
    THEN EmptyBag
    ELSE emit_room({CHOOSE s \in sessions : TRUE}, live,
                   Ev("notification", None, user_id, None, {}))

notify_sessions(sessions, live, user_id) ==
    SumBags([s \in sessions |-> emit_room({s}, live, Ev("notification", None, user_id, None, {}))],
            sessions)

send_notification_to_user(user_id) ==
    /\ Tick
    /\ last' = In("send_notification_to_user", None, None, user_id, None, None)
    /\ result' = NoResult
    /\ sent' = notify_sessions(get_user_sessions(user_sessions, user_id), Live, user_id)
    /\ UNCHANGED <<stateVars, conn, registered_pairs, joins>>

broadcast_notification(exclude_user_id) ==
    /\ Tick
    /\ last' = In("broadcast_notification", None, None, exclude_user_id, None, None)
    /\ result' = NoResult
    /\ sent' = LET targets == {u \in DOMAIN user_sessions : u # exclude_user_id}
               IN  SumBags([u \in targets |-> notify_sessions(user_sessions[u], Live, u)],
                           targets)
    /\ UNCHANGED <<stateVars, conn, registered_pairs, joins>>

OptDocuments == Documents \cup {None}
OptUsers == Users \cup {None}
OptNames == Names \cup {None}
Payloads == {None, 1}

Next ==
    \/ \E s \in Sessions : handle_connect(s)
    \/ \E s \in Sessions : handle_disconnect(s)
    \/ \E s \in Sessions, d \in OptDocuments, u \in OptUsers, n \in OptNames :
          handle_join_document(s, d, u, n)
    \/ \E s \in Sessions, d \in OptDocuments : handle_leave_document(s, d)
    \/ \E s \in Sessions, d \in OptDocuments, p \in Payloads : handle_cursor_move(s, d, p)
    \/ \E s \in Sessions, d \in OptDocuments, p \in Payloads : handle_edit_content(s, d, p)
    \/ \E s \in Sessions, d \in OptDocuments : handle_get_document_users(s, d)
    \/ \E s \in Sessions : handle_ping(s)
    \/ \E s \in Sessions, u \in OptUsers : handle_register_user(s, u)
    \/ \E s \in Sessions, u \in OptUsers : handle_unregister_user(s, u)
    \/ \E s \in Sessions, d \in OptDocuments, o \in SyncOutcomes : handle_request_sync(s, d, o)
    \/ \E u \in Users : send_notification_to_user(u)
    \/ \E u \in OptUsers : broadcast_notification(u)

Spec == Init /\ [][Next]_vars

\* the presence tracker behind its handlers: join, leave, disconnect and the
\* membership query, with well-formed requests
NextPresence ==
    \/ \E s \in Sessions : handle_connect(s)
    \/ \E s \in Sessions : handle_disconnect(s)
    \/ \E s \in Sessions, d \in Documents, u \in Users, n \in OptNames :
          handle_join_document(s, d, u, n)
    \/ \E s \in Sessions, d \in Documents : handle_leave_document(s, d)
    \/ \E s \in Sessions, d \in Documents : handle_get_document_users(s, d)

SpecPresence == Init /\ [][NextPresence]_vars

\* the connection registry behind its handlers, with the dispatcher; a join
\* is what lets a disconnect unregister
NextRegistry ==
    \/ \E s \in Sessions : handle_connect(s)
    \/ \E s \in Sessions : handle_disconnect(s)
    \/ \E s \in Sessions, u \in Users : handle_join_document(s, 1, u, None)
    \/ \E s \in Sessions, u \in OptUsers : handle_register_user(s, u)
    \/ \E s \in Sessions, u \in OptUsers : handle_unregister_user(s, u)
    \/ \E u \in Users : send_notification_to_user(u)
    \/ \E u \in OptUsers : broadcast_notification(u)

SpecRegistry == Init /\ [][NextRegistry]_vars

\* a second run of the disconnect cleanup for a connection that is already
\* closed (a duplicate disconnect-cleanup path)
handle_disconnect_again(sid) ==
    /\ Tick
    /\ conn[sid] = "closed"
    /\ \E pick \in DisconnectPicks(document_users, session_documents, sid) :
        LET r == disconnect_session(document_users, session_info, session_documents, sid, pick)
            left_documents == r.ret
            unreg == {p.user_info.user_id : p \in {x \in left_documents :
                        x.user_info # NoInfo /\ x.user_info.user_id # None}}
        IN  /\ document_users' = r.document_users
            /\ session_info' = r.session_info
            /\ session_documents' = r.session_documents
            /\ result' = [NoResult EXCEPT !.left_documents = left_documents]
            /\ sent' = SumBags([p \in left_documents |->
                          emit_room(rooms[p.document_id], Live,
                                    Ev("user_left", p.document_id, p.user_info.user_id, sid, {}))],
                          left_documents)
            /\ user_sessions' = UnregisterAll(user_sessions, unreg, sid)
            /\ registered_pairs' = registered_pairs \ {<<u, sid>> : u \in unreg}
    /\ last' = In("disconnect", sid, None, None, None, None)
    /\ UNCHANGED <<rooms, conn, joins>>

NextCleanup ==
    \/ NextPresence
    \/ \E s \in Sessions : handle_disconnect_again(s)

SpecCleanup == Init /\ [][NextCleanup]_vars

\* the relay and the sync handlers among joined connections
NextRouter ==
    \/ \E s \in Sessions : handle_connect(s)
    \/ \E s \in Sessions : handle_disconnect(s)
    \/ \E s \in Sessions, d \in Documents, u \in Users : handle_join_document(s, d, u, None)
    \/ \E s \in Sessions, d \in OptDocuments, p \in Payloads : handle_cursor_move(s, d, p)
    \/ \E s \in Sessions, d \in OptDocuments, o \in SyncOutcomes :
          handle_request_sync(s, d, o)

SpecRouter == Init /\ [][NextRouter]_vars

\* ---- DocumentPresence under async_mode='threading' ----
\* Every handler runs in a thread of its own, and the statements of a
\* tracker method are steps of that thread: one step per statement group
\* that reads or writes one of the three maps.
otherVars == <<user_sessions, rooms, conn, last, result, sent, registered_pairs, joins, frame,
              returned, received>>

\* the first statement inside `with self._data_lock:` of each method
Entry(op) ==
    CASE op = "join_document" -> "join_room"
      [] op = "leave_document" -> "leave_room"
      [] op = "disconnect_session" -> "disconnect_begin"
      [] op = "request_sync" -> "sync_read"
      [] OTHER -> "query"

\* the statement groups inside the with blocks
BodyLabels == {"join_room", "join_info", "join_index", "join_list", "leave_room", "leave_index",
               "disconnect_begin", "disconnect_loop", "disconnect_cleanup", "query"}

\* thread t is inside a with block: it has acquired and not yet released
InLock(t) == pc[t] \in BodyLabels \cup {"release"}

\* thread t has touched the maps and its method has more to do on them
MidOperation(t) == pc[t] \in BodyLabels \ {"join_room", "leave_room", "disconnect_begin", "query"}

Goto(t, label) == pc' = [pc EXCEPT ![t] = label]

\* a handler thread calls a method of the tracker; the model stops after
\* MaxCalls calls
thread_call(t, op, document_id, user_id, session_id) ==
    /\ events < MaxCalls
    /\ events' = events + 1
    /\ pc[t] = "idle"
    /\ call' = [call EXCEPT ![t] = [op |-> op, document_id |-> document_id,
                                    user_id |-> user_id, session_id |-> session_id]]
    /\ Goto(t, "acquire")
    /\ UNCHANGED <<presenceVars, otherVars, locked, todo>>

\* a thread that finds the lock free takes it without waiting
lock_ignored(l) == TRUE

\* threading.Lock.acquire blocks while the lock is held
lock_available(l) == ~l

\* with self._data_lock: (__enter__)
acquire(t) ==
    /\ pc[t] = "acquire"
    /\ lock_available(locked)
    /\ locked' = TRUE
    /\ Goto(t, Entry(call[t].op))
    /\ UNCHANGED <<presenceVars, otherVars, events, call, todo>>

\* the end of the with block (__exit__), on the method's return
release(t) ==
    /\ pc[t] = "release"
    /\ locked' = FALSE
    /\ call' = [call EXCEPT ![t] = NoCall]
    /\ Goto(t, "idle")
    /\ UNCHANGED <<presenceVars, otherVars, events, todo>>

join_room(t) ==
    /\ pc[t] = "join_room"
    /\ LET c == call[t]
           du1 == IF c.document_id \notin DOMAIN document_users
                  THEN DictSet(document_users, c.document_id, {})
                  ELSE document_users
       IN  document_users' = DictSet(du1, c.document_id,
                                 du1[c.document_id] \cup {<<c.user_id, c.session_id>>})
    /\ Goto(t, "join_info")
    /\ UNCHANGED <<session_info, session_documents, otherVars, events, locked, call, todo>>

join_info(t) ==
    /\ pc[t] = "join_info"
    /\ session_info' = DictSet(session_info, call[t].session_id,
                               [user_id |-> call[t].user_id, user_name |-> None])
    /\ Goto(t, "join_index")
    /\ UNCHANGED <<document_users, session_documents, otherVars, events, locked, call, todo>>

join_index(t) ==
    /\ pc[t] = "join_index"
    /\ LET c == call[t]
           sd1 == IF c.session_id \notin DOMAIN session_documents
                  THEN DictSet(session_documents, c.session_id, {})
                  ELSE session_documents
       IN  session_documents' = DictSet(sd1, c.session_id,
                                    sd1[c.session_id] \cup {c.document_id})
    /\ Goto(t, "join_list")
    /\ UNCHANGED <<document_users, session_info, otherVars, events, locked, call, todo>>

\* a member listing that takes the lock itself, as the public
\* get_document_users does
_get_document_users_acquires(l) == lock_available(l)

\* _get_document_users has no `with self._data_lock:` of its own: it runs
\* whatever the state of the lock
_get_document_users_enters(l) == TRUE

\* return self._get_document_users(document_id, exclude_session=session_id),
\* called with the lock held
join_list(t) ==
    /\ pc[t] = "join_list"
    /\ _get_document_users_enters(locked)
    /\ Goto(t, "release")
    /\ UNCHANGED <<presenceVars, otherVars, events, locked, call, todo>>

leave_room(t) ==
    /\ pc[t] = "leave_room"
    /\ \E to_remove \in ToRemoveChoices(document_users, call[t].document_id,
                                        call[t].session_id) :
          document_users' = RemoveTuple(document_users, call[t].document_id, to_remove)
    /\ Goto(t, "leave_index")
    /\ UNCHANGED <<session_info, session_documents, otherVars, events, locked, call, todo>>

leave_index(t) ==
    /\ pc[t] = "leave_index"
    /\ session_documents' =
          leave_document(document_users, session_info, session_documents,
                         call[t].document_id, call[t].session_id, NoTuple).session_documents
    /\ Goto(t, "release")
    /\ UNCHANGED <<document_users, session_info, otherVars, events, locked, call, todo>>

disconnect_begin(t) ==
    /\ pc[t] = "disconnect_begin"
    /\ todo' = [todo EXCEPT ![t] = DictGet(session_documents, call[t].session_id, {})]
    /\ Goto(t, "disconnect_loop")
    /\ UNCHANGED <<presenceVars, otherVars, events, locked, call>>

disconnect_loop(t) ==
    /\ pc[t] = "disconnect_loop"
    /\ IF todo[t] = {}
       THEN /\ Goto(t, "disconnect_cleanup")
            /\ UNCHANGED <<document_users, todo>>
       ELSE \E document_id \in todo[t] :
              \E to_remove \in ToRemoveChoices(document_users, document_id,
                                               call[t].session_id) :
                /\ document_users' = RemoveTuple(document_users, document_id, to_remove)
                /\ todo' = [todo EXCEPT ![t] = @ \ {document_id}]
                /\ UNCHANGED pc
    /\ UNCHANGED <<session_info, session_documents, otherVars, events, locked, call>>

disconnect_cleanup(t) ==
    /\ pc[t] = "disconnect_cleanup"
    /\ session_documents' = DictDel(session_documents, call[t].session_id)
    /\ session_info' = DictDel(session_info, call[t].session_id)
    /\ Goto(t, "release")
    /\ UNCHANGED <<document_users, otherVars, events, locked, call, todo>>

\* get_document_users, get_user_documents, is_user_in_document and
\* get_document_count read the maps and return
query(t) ==
    /\ pc[t] = "query"
    /\ Goto(t, "release")
    /\ UNCHANGED <<presenceVars, otherVars, events, locked, call, todo>>

NextThreads ==
    \/ \E t \in Threads, d \in Documents, u \in Users, s \in Sessions :
          thread_call(t, "join_document", d, u, s)
    \/ \E t \in Threads, d \in Documents, s \in Sessions :
          thread_call(t, "leave_document", d, None, s)
    \/ \E t \in Threads, s \in Sessions : thread_call(t, "disconnect_session", None, None, s)
    \/ \E t \in Threads, d \in Documents :
          \/ thread_call(t, "get_document_users", d, None, None)
          \/ thread_call(t, "get_document_count", d, None, None)
    \/ \E t \in Threads, s \in Sessions : thread_call(t, "get_user_documents", None, None, s)
    \/ \E t \in Threads, d \in Documents, s \in Sessions :
          thread_call(t, "is_user_in_document", d, None, s)
    \/ \E t \in Threads : acquire(t)
    \/ \E t \in Threads : release(t)
    \/ \E t \in Threads : join_room(t)
    \/ \E t \in Threads : join_info(t)
    \/ \E t \in Threads : join_index(t)
    \/ \E t \in Threads : join_list(t)
    \/ \E t \in Threads : leave_room(t)
    \/ \E t \in Threads : leave_index(t)
    \/ \E t \in Threads : disconnect_begin(t)
    \/ \E t \in Threads : disconnect_loop(t)
    \/ \E t \in Threads : disconnect_cleanup(t)
    \/ \E t \in Threads : query(t)

SpecThreads == Init /\ [][NextThreads]_vars

\* the steps of thread t inside the tracker, from the acquisition of the
\* lock to its release
ThreadStep(t) ==
    \/ acquire(t) \/ release(t)
    \/ join_room(t) \/ join_info(t) \/ join_index(t) \/ join_list(t)
    \/ leave_room(t) \/ leave_index(t)
    \/ disconnect_begin(t) \/ disconnect_loop(t) \/ disconnect_cleanup(t)
    \/ query(t)

\* the four kinds of tracker operation, called from concurrent threads
NextLock ==
    \/ \E t \in Threads, d \in Documents, s \in Sessions :
          thread_call(t, "join_document", d, 1, s)
    \/ \E t \in Threads, d \in Documents, s \in Sessions :
          thread_call(t, "leave_document", d, None, s)
    \/ \E t \in Threads, s \in Sessions : thread_call(t, "disconnect_session", None, None, s)
    \/ \E t \in Threads, d \in Documents : thread_call(t, "get_document_users", d, None, None)
    \/ \E t \in Threads : ThreadStep(t)

\* fair scheduling: a thread that can run does run, and a thread that waits
\* for the lock gets it if the lock is free again and again
SpecLock ==
    /\ Init /\ [][NextLock]_vars
    /\ \A t \in Threads : WF_vars(ThreadStep(t)) /\ SF_vars(acquire(t))

\* ---- handlers of one connection in concurrent threads ----
\* a request_sync handler that takes the presence lock before its read
request_sync_entry_locked == "acquire"

\* handle_request_sync goes from its document_id check straight to the read
request_sync_entry == "sync_read"

\* The transport starts a handler thread for an event of a connection it has
\* not declared dead; the disconnect handler starts when it declares it dead,
\* whatever handlers of the connection are still running.
handler_start(t, op, document_id, user_id, session_id) ==
    /\ events < MaxCalls
    /\ events' = events + 1
    /\ pc[t] = "idle"
    /\ conn[session_id] # "closed"
    /\ conn' = IF op = "disconnect_session"
               THEN [conn EXCEPT ![session_id] = "closed"]
               ELSE conn
    /\ call' = [call EXCEPT ![t] = [op |-> op, document_id |-> document_id,
                                    user_id |-> user_id, session_id |-> session_id]]
    /\ Goto(t, IF op = "request_sync" THEN request_sync_entry ELSE "acquire")
    /\ UNCHANGED <<presenceVars, user_sessions, rooms, last, result, sent,
                   registered_pairs, joins, locked, todo, frame, returned, received>>

\* Document.query.get and the file read return; the handler emits its one
\* answer and ends
sync_read(t) ==
    /\ pc[t] = "sync_read"
    /\ \E outcome \in SyncOutcomes :
          sent' = emit_self(call[t].session_id,
                      IF outcome = Found
                      THEN Ev("sync_response", call[t].document_id, None, None, {})
                      ELSE Ev("error", None, None, None, {}))
    /\ call' = [call EXCEPT ![t] = NoCall]
    /\ Goto(t, "idle")
    /\ UNCHANGED <<presenceVars, user_sessions, rooms, conn, last, result,
                   registered_pairs, joins, events, locked, todo, frame, returned, received>>

NextHandlers ==
    \/ \E t \in Threads, d \in Documents, u \in Users, s \in Sessions :
          handler_start(t, "join_document", d, u, s)
    \/ \E t \in Threads, s \in Sessions : handler_start(t, "disconnect_session", None, None, s)
    \/ \E t \in Threads, d \in Documents, s \in Sessions :
          handler_start(t, "request_sync", d, None, s)
    \/ \E t \in Threads : sync_read(t)
    \/ \E t \in Threads : acquire(t)
    \/ \E t \in Threads : release(t)
    \/ \E t \in Threads : join_room(t)
    \/ \E t \in Threads : join_info(t)
    \/ \E t \in Threads : join_index(t)
    \/ \E t \in Threads : join_list(t)
    \/ \E t \in Threads : disconnect_begin(t)
    \/ \E t \in Threads : disconnect_loop(t)
    \/ \E t \in Threads : disconnect_cleanup(t)

SpecHandlers == Init /\ [][NextHandlers]_vars

\* ---- join, leave and disconnect handlers in concurrent threads ----
\* The statements of a handler are steps of its thread: the transport call,
\* the tracker call (one step: the tracker's lock makes it atomic) and each
\* emit.  An emit delivers at once, so every connection receives in the
\* order the handlers emitted to it.
handlerFrame == <<user_sessions, last, result, registered_pairs, locked, todo, frame>>

\* the events of bag b reach their connections
Deliver(b) ==
    [c \in Sessions |->
        IF \E e \in BagToSet(b) : e.to = c
        THEN Append(received[c], CHOOSE e \in BagToSet(b) : e.to = c)
        ELSE received[c]]

\* the handler of thread t returns
HandlerDone(t) ==
    /\ call' = [call EXCEPT ![t] = NoCall]
    /\ Goto(t, "idle")

\* the first statement of each handler after its request check
HandlerEntry(op) ==
    CASE op = "join_document" -> "join_handler_room"
      [] op = "leave_document" -> "leave_handler_presence"
      [] OTHER -> "disconnect_handler_presence"

\* the transport starts the handler of an event of an open connection in a
\* thread of its own; it runs the disconnect handler once it has declared
\* the connection dead
handler_thread(t, op, document_id, user_id, session_id) ==
    /\ events < MaxCalls
    /\ events' = events + 1
    /\ pc[t] = "idle"
    /\ conn[session_id] = "connected"
    /\ conn' = IF op = "disconnect"
               THEN [conn EXCEPT ![session_id] = "closed"]
               ELSE conn
    /\ call' = [call EXCEPT ![t] = [op |-> op, document_id |-> document_id,
                                    user_id |-> user_id, session_id |-> session_id]]
    /\ Goto(t, HandlerEntry(op))
    /\ UNCHANGED <<presenceVars, rooms, joins, sent, returned, received, handlerFrame>>

\* join_room(room)
join_handler_room(t) ==
    /\ pc[t] = "join_handler_room"
    /\ rooms' = [rooms EXCEPT ![call[t].document_id] = @ \cup {call[t].session_id}]
    /\ Goto(t, "join_handler_presence")
    /\ UNCHANGED <<presenceVars, conn, joins, sent, events, call, returned, received,
                   handlerFrame>>

\* other_users = presence.join_document(...)
join_handler_presence(t) ==
    /\ pc[t] = "join_handler_presence"
    /\ LET c == call[t]
           r == join_document(document_users, session_info, session_documents,
                              c.document_id, c.user_id, c.session_id, None)
       IN  /\ document_users' = r.document_users
           /\ session_info' = r.session_info
           /\ session_documents' = r.session_documents
           /\ returned' = [returned EXCEPT ![t] = r.ret]
           /\ joins' = DictSet(joins, <<c.document_id, c.session_id>>,
                               [user_id |-> c.user_id, user_name |-> None])
    /\ Goto(t, "join_handler_reply")
    /\ UNCHANGED <<rooms, conn, sent, events, call, received, handlerFrame>>

\* emit('document_joined', {document_id, users: other_users})
join_handler_reply(t) ==
    /\ pc[t] = "join_handler_reply"
    /\ LET b == emit_room({call[t].session_id}, Live,
                     Ev("document_joined", call[t].document_id, None, None, returned[t]))
       IN  sent' = b /\ received' = Deliver(b)
    /\ Goto(t, "join_handler_announce")
    /\ UNCHANGED <<presenceVars, rooms, conn, joins, events, call, returned, handlerFrame>>

\* emit('user_joined', {...}, room=room, include_self=False)
join_handler_announce(t) ==
    /\ pc[t] = "join_handler_announce"
    /\ LET b == emit_room_skip(rooms[call[t].document_id], Live, call[t].session_id,
                     Ev("user_joined", call[t].document_id, call[t].user_id,
                        call[t].session_id, {}))
       IN  sent' = b /\ received' = Deliver(b)
    /\ returned' = [returned EXCEPT ![t] = {}]
    /\ HandlerDone(t)
    /\ UNCHANGED <<presenceVars, rooms, conn, joins, events, handlerFrame>>

\* user_info = presence.leave_document(document_id, session_id)
leave_handler_presence(t) ==
    /\ pc[t] = "leave_handler_presence"
    /\ \E to_remove \in ToRemoveChoices(document_users, call[t].document_id,
                                        call[t].session_id) :
          LET r == leave_document(document_users, session_info, session_documents,
                                  call[t].document_id, call[t].session_id, to_remove)
          IN  /\ document_users' = r.document_users
              /\ session_info' = r.session_info
              /\ session_documents' = r.session_documents
              /\ returned' = [returned EXCEPT ![t] = r.ret]
    /\ joins' = DictDel(joins, <<call[t].document_id, call[t].session_id>>)
    /\ Goto(t, "leave_handler_room")
    /\ UNCHANGED <<rooms, conn, sent, events, call, received, handlerFrame>>

\* leave_room(room)
leave_handler_room(t) ==
    /\ pc[t] = "leave_handler_room"
    /\ rooms' = [rooms EXCEPT ![call[t].document_id] = @ \ {call[t].session_id}]
    /\ Goto(t, "leave_handler_announce")
    /\ UNCHANGED <<presenceVars, conn, joins, sent, events, call, returned, received,
                   handlerFrame>>

\* if user_info: emit('user_left', {...}, room=room)
leave_handler_announce(t) ==
    /\ pc[t] = "leave_handler_announce"
    /\ LET b == IF returned[t] # NoInfo
                THEN emit_room(rooms[call[t].document_id], Live,
                         Ev("user_left", call[t].document_id, returned[t].user_id,
                            call[t].session_id, {}))
                ELSE EmptyBag
       IN  sent' = b /\ received' = Deliver(b)
    /\ Goto(t, "leave_handler_reply")
    /\ UNCHANGED <<presenceVars, rooms, conn, joins, events, call, returned, handlerFrame>>

\* emit('document_left', {document_id})
leave_handler_reply(t) ==
    /\ pc[t] = "leave_handler_reply"
    /\ LET b == emit_room({call[t].session_id}, Live,
                     Ev("document_left", call[t].document_id, None, None, {}))
       IN  sent' = b /\ received' = Deliver(b)
    /\ returned' = [returned EXCEPT ![t] = {}]
    /\ HandlerDone(t)
    /\ UNCHANGED <<presenceVars, rooms, conn, joins, events, handlerFrame>>

\* left_documents = presence.disconnect_session(session_id)
disconnect_handler_presence(t) ==
    /\ pc[t] = "disconnect_handler_presence"
    /\ \E pick \in DisconnectPicks(document_users, session_documents, call[t].session_id) :
          LET r == disconnect_session(document_users, session_info, session_documents,
                                      call[t].session_id, pick)
          IN  /\ document_users' = r.document_users
              /\ session_info' = r.session_info
              /\ session_documents' = r.session_documents
              /\ returned' = [returned EXCEPT ![t] = r.ret]
    /\ joins' = [k \in {x \in DOMAIN joins : x[2] # call[t].session_id} |-> joins[k]]
    /\ Goto(t, "disconnect_handler_emit")
    /\ UNCHANGED <<rooms, conn, sent, events, call, received, handlerFrame>>

\* for document_id, user_info in left_documents: emit('user_left', ..., room=room)
\* (the connection registered nothing, so the unregister finds no entry)
disconnect_handler_emit(t) ==
    /\ pc[t] = "disconnect_handler_emit"
    /\ IF returned[t] = {}
       THEN /\ Goto(t, "disconnect_handler_rooms")
            /\ UNCHANGED <<sent, received, returned>>
       ELSE \E p \in returned[t] :
              LET b == emit_room(rooms[p.document_id], Live,
                           Ev("user_left", p.document_id, p.user_info.user_id,
                              call[t].session_id, {}))
              IN  /\ sent' = b
                  /\ received' = Deliver(b)
                  /\ returned' = [returned EXCEPT ![t] = @ \ {p}]
                  /\ UNCHANGED pc
    /\ UNCHANGED <<presenceVars, rooms, conn, joins, events, call, handlerFrame>>

\* the handler has returned: the transport drops the sid from every room
disconnect_handler_rooms(t) ==
    /\ pc[t] = "disconnect_handler_rooms"
    /\ rooms' = [d \in Documents |-> rooms[d] \ {call[t].session_id}]
    /\ HandlerDone(t)
    /\ UNCHANGED <<presenceVars, conn, joins, sent, events, returned, received, handlerFrame>>

NextViews ==
    \/ \E s \in Sessions : handle_connect(s)
    \/ \E t \in Threads, d \in Documents, u \in Users, s \in Sessions :
          handler_thread(t, "join_document", d, u, s)
    \/ \E t \in Threads, d \in Documents, s \in Sessions :
          handler_thread(t, "leave_document", d, None, s)
    \/ \E t \in Threads, s \in Sessions : handler_thread(t, "disconnect", None, None, s)
    \/ \E t \in Threads : join_handler_room(t)
    \/ \E t \in Threads : join_handler_presence(t)
    \/ \E t \in Threads : join_handler_reply(t)
    \/ \E t \in Threads : join_handler_announce(t)
    \/ \E t \in Threads : leave_handler_presence(t)
    \/ \E t \in Threads : leave_handler_room(t)
    \/ \E t \in Threads : leave_handler_announce(t)
    \/ \E t \in Threads : leave_handler_reply(t)
    \/ \E t \in Threads : disconnect_handler_presence(t)
    \/ \E t \in Threads : disconnect_handler_emit(t)
    \/ \E t \in Threads : disconnect_handler_rooms(t)

SpecViews == Init /\ [][NextViews]_vars

\* ---- the user_sessions registry under async_mode='threading' ----
\* register_user_session and unregister_user_session run in handler threads,
\* send_notification_to_user and broadcast_notification in the threads of the
\* REST requests that call them; nothing locks user_sessions, so the
\* statements of these functions interleave.
registryFrame == <<presenceVars, rooms, conn, last, result, joins, locked, todo,
                   returned, received>>

\* the set object thread t iterates: the registry's own set of a user while
\* that object is still in user_sessions, else what the thread is left with
HeldValue(t) == IF frame[t].alias THEN user_sessions[frame[t].user] ELSE frame[t].value

\* the set object of user_id leaves user_sessions (replaced or deleted): the
\* threads that hold a reference to it keep the object with its contents
Detach(user_id) ==
    [t \in Threads |->
        IF frame[t].alias /\ frame[t].user = user_id
        THEN [frame[t] EXCEPT !.alias = FALSE, !.value = user_sessions[user_id]]
        ELSE frame[t]]

\* the function returns
Return(t) ==
    /\ pc' = [pc EXCEPT ![t] = "idle"]
    /\ call' = [call EXCEPT ![t] = NoCall]

\* the statement raises (KeyError, or RuntimeError: ... changed size during
\* iteration) and the exception leaves the function
Raise(t) ==
    /\ pc' = [pc EXCEPT ![t] = "raised"]
    /\ UNCHANGED <<user_sessions, registered_pairs, sent, call, frame>>

registry_call(t, op, user_id, session_id) ==
    /\ events < MaxCalls
    /\ events' = events + 1
    /\ pc[t] = "idle"
    /\ call' = [call EXCEPT ![t] = [op |-> op, document_id |-> None,
                                    user_id |-> user_id, session_id |-> session_id]]
    /\ Goto(t, CASE op = "register_user_session" -> "reg_check"
                 [] op = "unregister_user_session" -> "unreg_check"
                 [] op = "send_notification_to_user" -> "send_get"
                 [] OTHER -> "bc_items")
    /\ registered_pairs' = IF op = "unregister_user_session"
                           THEN registered_pairs \ {<<user_id, session_id>>}
                           ELSE registered_pairs
    /\ UNCHANGED <<registryFrame, user_sessions, sent, frame>>

\* if user_id not in user_sessions:
reg_check(t) ==
    /\ pc[t] = "reg_check"
    /\ Goto(t, IF call[t].user_id \notin DOMAIN user_sessions THEN "reg_create" ELSE "reg_add")
    /\ UNCHANGED <<registryFrame, user_sessions, registered_pairs, sent, events, call, frame>>

\* user_sessions[user_id] = set()
reg_create(t) ==
    /\ pc[t] = "reg_create"
    /\ user_sessions' = DictSet(user_sessions, call[t].user_id, {})
    /\ frame' = Detach(call[t].user_id)
    /\ Goto(t, "reg_add")
    /\ UNCHANGED <<registryFrame, registered_pairs, sent, events, call>>

\* user_sessions[user_id].add(session_id)
reg_add(t) ==
    /\ pc[t] = "reg_add"
    /\ IF call[t].user_id \notin DOMAIN user_sessions
       THEN Raise(t)
       ELSE /\ user_sessions' = register_user_session(user_sessions, call[t].user_id,
                                                      call[t].session_id)
            /\ registered_pairs' =
                  IF \E t2 \in Threads : /\ call[t2].op = "unregister_user_session"
                                         /\ call[t2].user_id = call[t].user_id
                                         /\ call[t2].session_id = call[t].session_id
                  THEN registered_pairs
                  ELSE registered_pairs \cup {<<call[t].user_id, call[t].session_id>>}
            /\ Return(t)
            /\ UNCHANGED <<sent, frame>>
    /\ UNCHANGED <<registryFrame, events>>

\* if user_id in user_sessions:
unreg_check(t) ==
    /\ pc[t] = "unreg_check"
    /\ IF call[t].user_id \in DOMAIN user_sessions
       THEN Goto(t, "unreg_discard") /\ UNCHANGED call
       ELSE Return(t)
    /\ UNCHANGED <<registryFrame, user_sessions, registered_pairs, sent, events, frame>>

\* user_sessions[user_id].discard(session_id)
unreg_discard(t) ==
    /\ pc[t] = "unreg_discard"
    /\ IF call[t].user_id \notin DOMAIN user_sessions
       THEN Raise(t)
       ELSE /\ user_sessions' = DictSet(user_sessions, call[t].user_id,
                                    user_sessions[call[t].user_id] \ {call[t].session_id})
            /\ Goto(t, "unreg_empty")
            /\ UNCHANGED <<registered_pairs, sent, call, frame>>
    /\ UNCHANGED <<registryFrame, events>>

\* if not user_sessions[user_id]:
unreg_empty(t) ==
    /\ pc[t] = "unreg_empty"
    /\ IF call[t].user_id \notin DOMAIN user_sessions
       THEN Raise(t)
       ELSE /\ IF user_sessions[call[t].user_id] = {}
               THEN Goto(t, "unreg_del") /\ UNCHANGED call
               ELSE Return(t)
            /\ UNCHANGED <<user_sessions, registered_pairs, sent, frame>>
    /\ UNCHANGED <<registryFrame, events>>

\* del user_sessions[user_id]
unreg_del(t) ==
    /\ pc[t] = "unreg_del"
    /\ IF call[t].user_id \notin DOMAIN user_sessions
       THEN Raise(t)
       ELSE /\ user_sessions' = DictDel(user_sessions, call[t].user_id)
            /\ frame' = Detach(call[t].user_id)
            /\ Return(t)
            /\ UNCHANGED <<registered_pairs, sent>>
    /\ UNCHANGED <<registryFrame, events>>

\* what `for session_id in <the set of user_id>` starts from: the object
\* user_sessions.get(user_id, set()) evaluates to, and a set iterator on it
StartIteration(t, user_id) ==
    IF user_id \in DOMAIN user_sessions
    THEN [frame[t] EXCEPT !.alias = TRUE, !.user = user_id, !.value = {},
                          !.at_call = user_sessions[user_id],
                          !.it_size = Cardinality(user_sessions[user_id]),
                          !.visited = {}]
    ELSE [frame[t] EXCEPT !.alias = FALSE, !.user = user_id, !.value = {}, !.at_call = {},
                          !.it_size = 0, !.visited = {}]

\* sessions = get_user_sessions(user_id); for session_id in sessions:
send_get(t) ==
    /\ pc[t] = "send_get"
    /\ frame' = [frame EXCEPT ![t] = StartIteration(t, call[t].user_id)]
    /\ Goto(t, "send_next")
    /\ UNCHANGED <<registryFrame, user_sessions, registered_pairs, sent, events, call>>

\* one round of the loop over a set: the iterator raises if the set has
\* another size than when the loop began, ends if every element has been
\* produced, and else produces one, which gets the notification
IterateSessions(t, after) ==
    IF Cardinality(HeldValue(t)) # frame[t].it_size
    THEN Raise(t)
    ELSE IF HeldValue(t) \subseteq frame[t].visited
         THEN /\ frame' = [frame EXCEPT ![t] = [NoFrame EXCEPT !.dsize = frame[t].dsize,
                                                              !.dvisited = frame[t].dvisited]]
              /\ after
              /\ UNCHANGED <<user_sessions, registered_pairs, sent>>
         ELSE \E session_id \in HeldValue(t) \ frame[t].visited :
                /\ sent' = emit_room({session_id}, Live,
                               Ev("notification", None, frame[t].user, None, {}))
                /\ frame' = [frame EXCEPT ![t].visited = @ \cup {session_id}]
                /\ UNCHANGED <<user_sessions, registered_pairs, pc, call>>

send_next(t) ==
    /\ pc[t] = "send_next"
    /\ IterateSessions(t, Return(t))
    /\ UNCHANGED <<registryFrame, events>>

\* for user_id, sessions in user_sessions.items():
bc_items(t) ==
    /\ pc[t] = "bc_items"
    /\ frame' = [frame EXCEPT ![t] = [NoFrame EXCEPT !.dsize = Cardinality(DOMAIN user_sessions)]]
    /\ Goto(t, "bc_next")
    /\ UNCHANGED <<registryFrame, user_sessions, registered_pairs, sent, events, call>>

\* one round of the loop over the dict: the iterator raises if the dict has
\* another size than when the loop began; if user_id != exclude_user_id the
\* inner loop starts on the user's set
bc_next(t) ==
    /\ pc[t] = "bc_next"
    /\ IF Cardinality(DOMAIN user_sessions) # frame[t].dsize
       THEN Raise(t)
       ELSE /\ IF DOMAIN user_sessions \subseteq frame[t].dvisited
               THEN /\ Return(t)
                    /\ frame' = [frame EXCEPT ![t] = NoFrame]
               ELSE \E user_id \in DOMAIN user_sessions \ frame[t].dvisited :
                      /\ frame' = [frame EXCEPT ![t] =
                            [(IF user_id # call[t].user_id
                              THEN StartIteration(t, user_id) ELSE frame[t])
                             EXCEPT !.dvisited = @ \cup {user_id}]]
                      /\ Goto(t, IF user_id # call[t].user_id THEN "bc_inner" ELSE "bc_next")
                      /\ UNCHANGED call
            /\ UNCHANGED <<user_sessions, registered_pairs, sent>>
    /\ UNCHANGED <<registryFrame, events>>

\* for session_id in sessions: socketio.emit(...)
bc_inner(t) ==
    /\ pc[t] = "bc_inner"
    /\ IterateSessions(t, Goto(t, "bc_next") /\ UNCHANGED call)
    /\ UNCHANGED <<registryFrame, events>>

NextRegistryThreads ==
    \/ \E t \in Threads, u \in Users, s \in Sessions :
          registry_call(t, "register_user_session", u, s)
    \/ \E t \in Threads, u \in Users, s \in Sessions :
          registry_call(t, "unregister_user_session", u, s)
    \/ \E t \in Threads, u \in Users : registry_call(t, "send_notification_to_user", u, None)
    \/ \E t \in Threads, u \in OptUsers : registry_call(t, "broadcast_notification", u, None)
    \/ \E t \in Threads : reg_check(t)
    \/ \E t \in Threads : reg_create(t)
    \/ \E t \in Threads : reg_add(t)
    \/ \E t \in Threads : unreg_check(t)
    \/ \E t \in Threads : unreg_discard(t)
    \/ \E t \in Threads : unreg_empty(t)
    \/ \E t \in Threads : unreg_del(t)
    \/ \E t \in Threads : send_get(t)
    \/ \E t \in Threads : send_next(t)
    \/ \E t \in Threads : bc_items(t)
    \/ \E t \in Threads : bc_next(t)
    \/ \E t \in Threads : bc_inner(t)

SpecRegistryThreads == Init /\ [][NextRegistryThreads]_vars

\* ---- the operations of the specification, read off the state ----
membersOf(d) == get_document_users(document_users, session_info, d)
memberSessions(d) == {e.session_id : e \in membersOf(d)}
reverseIndex(c) == DictGet(session_documents, c, {})
sessionsFor(u) == get_user_sessions(user_sessions, u)
\* the same, of the state a step leads to
memberSessionsAfter(d) ==
    {e.session_id : e \in get_document_users(document_users', session_info', d)}
reverseIndexAfter(c) == DictGet(session_documents', c, {})
membersOfAfter(d) == get_document_users(document_users', session_info', d)
sessionsForAfter(u) == get_user_sessions(user_sessions', u)
\* the connections that have sent a valid join_document for d and since then
\* neither a leave_document for d nor disconnected
joined(d) == {c \in Sessions : <<d, c>> \in DOMAIN joins}
Delivered == BagToSet(sent)
RelayEvents == {"cursor_update", "content_update", "user_joined", "user_left"}

\* C1: after the disconnect of connection c has been handled, c is in
\* sessionsFor(u) for no user u
C1_DisconnectUnregisters ==
    last.op = "disconnect" => \A u \in Users : last.sid \notin sessionsFor(u)

\* C2: the reverse index and the room membership agree: d is in the
\* reverse-index set of c iff the room of d has an entry of connection c
C2_IndexAgreesWithRooms ==
    \A d \in Documents, c \in Sessions : d \in reverseIndex(c) <=> c \in memberSessions(d)

\* C3: a connection id appears in at most one PresenceEntry of a room
C3_OneEntryPerConnection ==
    \A d \in Documents, c \in Sessions :
        Cardinality({e \in membersOf(d) : e.session_id = c}) <= 1

\* C4: disconnectAll(c) of a member of N documents returns exactly N pairs,
\* one per document; afterwards none of those rooms has an entry of c and
\* the reverse index of c is empty
C4_DisconnectComplete ==
    [][last'.op = "disconnect" =>
        LET c == last'.sid
            docs == {d \in Documents : c \in memberSessions(d)}
        IN  /\ Cardinality(result'.left_documents) = Cardinality(docs)
            /\ {p.document_id : p \in result'.left_documents} = docs
            /\ \A d \in docs : c \notin memberSessionsAfter(d)
            /\ reverseIndexAfter(c) = {}]_vars

\* C5: after join(d, u, c) followed by leave(d, c), membersOf(d) has no entry
\* of c and the reverse index of c does not contain d
C5_JoinLeaveSymmetry ==
    [][(/\ last.op = "join_document"
        /\ ~join_request_invalid(last.document_id, last.user_id)
        /\ last'.op = "leave_document"
        /\ last'.sid = last.sid
        /\ last'.document_id = last.document_id)
       => /\ last.sid \notin memberSessionsAfter(last.document_id)
          /\ last.document_id \notin reverseIndexAfter(last.sid)]_vars

\* C6: leave_document for a document the connection is not a member of:
\* leave reports that nothing was removed, the presence state is unchanged,
\* no user_left is emitted, the caller gets the document_left acknowledgment
C6_LeaveNonMemberIsNoOp ==
    [][(/\ last'.op = "leave_document"
        /\ ~document_id_missing(last'.document_id)
        /\ last'.sid \notin memberSessions(last'.document_id))
       => /\ result'.user_info = NoInfo
          /\ presenceVars' = presenceVars
          /\ \A e \in Delivered' : e.event # "user_left"
          /\ CopiesIn([Ev("document_left", last'.document_id, None, None, {})
                          EXCEPT !.to = last'.sid], sent') = 1]_vars

C8_RelayToExactlyOtherMembers ==
    (/\ last.op \in {"cursor_move", "edit_content"}
     /\ ~relay_request_invalid(last.document_id, last.payload))
    => LET d == last.document_id
           name == IF last.op = "cursor_move" THEN "cursor_update" ELSE "content_update"
           relay(c) == [Ev(name, d, None, last.sid, {}) EXCEPT !.to = c]
       IN  /\ \A c \in Sessions :
                CopiesIn(relay(c), sent) =
                    IF c \in memberSessions(d) \ {last.sid} THEN 1 ELSE 0
           /\ Delivered \subseteq {relay(c) : c \in Sessions}

\* C9: a request that lacks a required field (join_document without
\* document_id or user_id; leave_document, get_document_users, request_sync
\* without document_id; edit_content without document_id or operation;
\* register_user without user_id) produces exactly one error event, to the
\* sender, and changes neither presence tracker, registry nor transport rooms
Malformed(l) ==
    \/ l.op = "join_document" /\ (l.document_id = None \/ l.user_id = None)
    \/ l.op \in {"leave_document", "get_document_users", "request_sync"} /\ l.document_id = None
    \/ l.op = "edit_content" /\ (l.document_id = None \/ l.payload = None)
    \/ l.op = "register_user" /\ l.user_id = None

C9_MalformedIsolation ==
    [][Malformed(last') =>
        /\ sent' = SetToBag({[Ev("error", None, None, None, {}) EXCEPT !.to = last'.sid]})
        /\ stateVars' = stateVars
        /\ registered_pairs' = registered_pairs]_vars

C9_Witness ==
    /\ last.op = "join_document"
    /\ last.document_id = None
    /\ last.user_id # None
    /\ \E c \in Live \ {last.sid} : \E d \in Documents : c \in memberSessions(d)
    /\ Cardinality(Delivered) = 1

\* C10: dispatch(U, payload) delivers one notification to every live
\* connection registered under U and not unregistered since (A and B after
\* register(U, A), register(U, B); B alone after unregister(U, A)), and to
\* no other connection
C10_NotificationFanOut ==
    last.op = "send_notification_to_user" =>
        LET u == last.user_id
            note(c) == [Ev("notification", None, u, None, {}) EXCEPT !.to = c]
        IN  /\ \A c \in Live :
                 CopiesIn(note(c), sent) = IF <<u, c>> \in registered_pairs THEN 1 ELSE 0
            /\ Delivered \subseteq {note(c) : c \in Live}

C10_Witness ==
    /\ last.op = "send_notification_to_user"
    /\ \E a, b \in Live : a # b /\ {a, b} = {e.to : e \in Delivered}

\* C11: no document id is mapped to an empty member set
C11_NoEmptyRoom ==
    \A d \in DOMAIN document_users : document_users[d] # {}

C11_Witness ==
    /\ last.op = "leave_document"
    /\ result.user_info # NoInfo
    /\ last.document_id \notin DOMAIN document_users
    /\ document_users # EmptyDict
    /\ \A d \in Documents : last.sid \notin memberSessions(d)

\* C12: while no connection that joined d is still in it (each has left d
\* through leave or disconnected), membersOf(d) is empty and d has no room
C12_RoomGarbageCollected ==
    \A d \in Documents :
        (\A c \in Sessions : <<d, c>> \notin DOMAIN joins)
            => membersOf(d) = {} /\ d \notin DOMAIN document_users

\* C13: a join_document that repeats the join just made changes neither the
\* membership of d nor the reverse index of c, and adds no entry
C13_IdempotentJoin ==
    [][(/\ last'.op = "join_document"
        /\ last'.repeat
        /\ ~join_request_invalid(last'.document_id, last'.user_id))
       => /\ membersOfAfter(last'.document_id) = membersOf(last'.document_id)
          /\ Cardinality(document_users'[last'.document_id])
               = Cardinality(document_users[last'.document_id])
          /\ reverseIndexAfter(last'.sid) = reverseIndex(last'.sid)]_vars

C13_Witness ==
    /\ last.op = "join_document"
    /\ last.repeat
    /\ ~join_request_invalid(last.document_id, last.user_id)
    /\ Cardinality(memberSessions(last.document_id)) >= 2

\* C14: join(d, u, c) returns one entry for every connection other than c
\* that is a member of d, and no entry for c
C14_JoinReturnsOtherMembers ==
    [][(/\ last'.op = "join_document"
        /\ ~join_request_invalid(last'.document_id, last'.user_id))
       => LET others == memberSessions(last'.document_id) \ {last'.sid}
          IN  \A x \in Sessions :
                Cardinality({e \in result'.other_users : e.session_id = x})
                    = IF x \in others THEN 1 ELSE 0]_vars

\* C15: what leave(d, c) and disconnectAll(c) return for a document d they
\* remove c from is the user id and display name c supplied in its join of
\* d, and the user_left event for d carries that user id
C15_RemovedEntryIsReturned ==
    [][/\ (/\ last'.op = "leave_document"
           /\ <<last'.document_id, last'.sid>> \in DOMAIN joins)
          => LET mine == joins[<<last'.document_id, last'.sid>>]
             IN  /\ result'.user_info = mine
                 /\ \A e \in Delivered' : e.event = "user_left" => e.user_id = mine.user_id
       /\ last'.op = "disconnect"
          => \A p \in result'.left_documents :
                /\ <<p.document_id, last'.sid>> \in DOMAIN joins
                /\ p.user_info = joins[<<p.document_id, last'.sid>>]
                /\ \A e \in Delivered' :
                      (e.event = "user_left" /\ e.document_id = p.document_id)
                          => e.user_id = joins[<<p.document_id, last'.sid>>].user_id]_vars

C17_TwoPeerScenario ==
    [][/\ (/\ last'.op = "join_document"
           /\ ~join_request_invalid(last'.document_id, last'.user_id)
           /\ last'.document_id \notin DOMAIN document_users)
          => sent' = emit_self(last'.sid,
                         Ev("document_joined", last'.document_id, None, None, {}))
       /\ \A c1 \in Live \ {last'.sid}, u1 \in Users :
            (/\ last'.op = "join_document"
             /\ ~join_request_invalid(last'.document_id, last'.user_id)
             /\ DictGet(document_users, last'.document_id, {}) = {<<u1, c1>>}
             /\ c1 \in rooms[last'.document_id])
            => LET d == last'.document_id
                   announce == [Ev("user_joined", d, last'.user_id, last'.sid, {})
                                 EXCEPT !.to = c1]
               IN  /\ {<<e.user_id, e.session_id>> : e \in result'.other_users}
                        = {<<u1, c1>>}
                   /\ Cardinality(result'.other_users) = 1
                   /\ CopiesIn([Ev("document_joined", d, None, None, result'.other_users)
                                   EXCEPT !.to = last'.sid], sent') = 1
                   /\ CopiesIn(announce, sent') = 1
                   /\ \A e \in Delivered' : e.event = "user_joined" => e = announce
       /\ \A c1 \in Live \ {last'.sid}, u1, u2 \in Users, d \in Documents :
            (/\ last'.op = "disconnect"
             /\ DictGet(document_users, d, {}) = {<<u1, c1>>, <<u2, last'.sid>>}
             /\ c1 \in rooms[d]
             /\ d \in reverseIndex(last'.sid)
             /\ DictGet(session_info, last'.sid, NoInfo).user_id = u2)
            => LET left == [Ev("user_left", d, u2, last'.sid, {}) EXCEPT !.to = c1]
               IN  /\ CopiesIn(left, sent') = 1
                   /\ \A e \in Delivered' :
                        (e.event = "user_left" /\ e.to = c1 /\ e.document_id = d)
                            => e = left]_vars

C17_Witness ==
    /\ events = 5
    /\ last.op = "disconnect"
    /\ \E c1 \in Live, d \in Documents, u1, u2 \in Users :
         /\ u1 # u2
         /\ document_users = DictSet(EmptyDict, d, {<<u1, c1>>})
         /\ sent = emit_self(c1, Ev("user_left", d, u2, last.sid, {}))

\* C19: no user id is mapped to an empty connection set, and an
\* unregister_user for a pair that is not registered changes nothing and is
\* acknowledged like any other
C19_RegistryCollected ==
    [][/\ \A u \in DOMAIN user_sessions' : user_sessions'[u] # {}
       /\ (/\ last'.op = "unregister_user"
           /\ ~user_id_missing(last'.user_id)
           /\ last'.sid \notin sessionsFor(last'.user_id))
          => /\ user_sessions' = user_sessions
             /\ sent' = emit_self(last'.sid,
                            Ev("user_unregistered", None, last'.user_id, None, {}))]_vars

C19_Witness ==
    /\ last.op = "unregister_user"
    /\ last.repeat
    /\ ~user_id_missing(last.user_id)
    /\ last.user_id \notin DOMAIN user_sessions
    /\ user_sessions # EmptyDict

\* C20: register(u, c) adds c to the set of u and nothing else, so a
\* register that repeats the one just made changes nothing; an unregister(u, c)
\* that follows a register(u, c) leaves c out of sessionsFor(u)
C20_RegisterIdempotent ==
    [][/\ (last'.op = "register_user" /\ ~user_id_missing(last'.user_id))
          => /\ \A u \in Users :
                  sessionsForAfter(u) = sessionsFor(u) \cup
                      (IF u = last'.user_id THEN {last'.sid} ELSE {})
             /\ last'.repeat => user_sessions' = user_sessions
       /\ (/\ last.op = "register_user" /\ ~user_id_missing(last.user_id)
           /\ last'.op = "unregister_user"
           /\ last'.sid = last.sid /\ last'.user_id = last.user_id)
          => last.sid \notin sessionsForAfter(last.user_id)]_vars

C20_Witness ==
    /\ last.op = "register_user"
    /\ last.repeat
    /\ ~user_id_missing(last.user_id)
    /\ Cardinality(sessionsFor(last.user_id)) >= 2

\* C18: at most one handler thread is inside a method of the presence
\* tracker at any time, and no thread reads or writes the presence maps
\* while another thread is in the middle of its operation on them
C18_MutualExclusion ==
    [][/\ \A t1, t2 \in Threads : (InLock(t1)' /\ InLock(t2)') => t1 = t2
       /\ \A t \in Threads :
            (pc[t] \in BodyLabels /\ (pc'[t] # pc[t] \/ todo'[t] # todo[t]))
                => \A t2 \in Threads \ {t} : ~MidOperation(t2)]_vars

C18_Witness ==
    \E t1, t2 \in Threads :
        /\ pc[t1] = "join_info"
        /\ pc[t2] = "acquire"
        /\ call[t2].op \in {"leave_document", "get_document_users"}
        /\ call[t2].document_id = call[t1].document_id
        /\ locked
        /\ Cardinality(document_users[call[t1].document_id]) >= 2

\* C22: send_notification_to_user and broadcast_notification change neither
\* the presence tracker, the registry nor the transport rooms, and a
\* send_notification_to_user for a user with no registered connection
\* delivers nothing
C22_DispatchReadsOnly ==
    [][last'.op \in {"send_notification_to_user", "broadcast_notification"}
       => /\ stateVars' = stateVars
          /\ registered_pairs' = registered_pairs
          /\ (last'.op = "send_notification_to_user" /\ sessionsFor(last'.user_id) = {})
                => sent' = EmptyBag]_vars

C22_Witness ==
    /\ last.op = "send_notification_to_user"
    /\ sessionsFor(last.user_id) = {}
    /\ sent = EmptyBag
    /\ \E u \in Users, c \in Live : c \in sessionsFor(u)

\* C23 as stated: broadcast_notification with exclude_user_id reaches every
\* open connection registered under some other user and no connection
\* registered under the excluded user
C23_BroadcastExcludesUser ==
    [][last'.op = "broadcast_notification"
       => \A c \in Live :
            LET got == \E e \in Delivered' : e.event = "notification" /\ e.to = c
            IN  /\ (\E u \in DOMAIN user_sessions : u # last'.user_id /\ c \in user_sessions[u])
                      => got
                /\ c \in sessionsFor(last'.user_id) => ~got]_vars

\* C23 amended: broadcast_notification delivers one notification to an open
\* connection for every user other than exclude_user_id it is registered
\* under, and nothing else; a connection of the excluded user is skipped only
\* if it is registered under no other user
C23_BroadcastReachesOtherUsers ==
    [][last'.op = "broadcast_notification"
       => LET note(u, c) == [Ev("notification", None, u, None, {}) EXCEPT !.to = c]
          IN  /\ \A c \in Sessions, u \in Users :
                    CopiesIn(note(u, c), sent')
                        = IF c \in Live /\ u # last'.user_id /\ c \in sessionsFor(u)
                          THEN 1 ELSE 0
              /\ Delivered' \subseteq {note(u, c) : u \in Users, c \in Sessions}]_vars

C23_Witness ==
    /\ last.op = "broadcast_notification"
    /\ last.user_id # None
    /\ \E c1, c2 \in Live : \E u \in Users \ {last.user_id} :
         /\ c1 \in sessionsFor(last.user_id) /\ c1 \in sessionsFor(u)
         /\ c2 \in sessionsFor(last.user_id) /\ c2 \notin sessionsFor(u)
         /\ {e.to : e \in Delivered} = {c1}

\* C24: a request_sync that carries a document_id delivers exactly one
\* event, to the caller: sync_response if the read succeeds, error if the
\* document is not found, error if the read raises; presence tracker,
\* registry and transport rooms are unchanged
C24_SyncAnswersCallerOnce ==
    [][(last'.op = "request_sync" /\ ~document_id_missing(last'.document_id))
       => /\ sent' = SetToBag({[(IF last'.payload = Found
                                 THEN Ev("sync_response", last'.document_id, None, None, {})
                                 ELSE Ev("error", None, None, None, {}))
                                EXCEPT !.to = last'.sid]})
          /\ stateVars' = stateVars
          /\ registered_pairs' = registered_pairs]_vars

C24_Witness ==
    /\ last.op = "request_sync"
    /\ last.payload = ReadFailed
    /\ last.document_id # None
    /\ \E c \in Live \ {last.sid} : c \in rooms[last.document_id]
    /\ last.sid \in rooms[last.document_id]
    /\ {e.to : e \in Delivered} = {last.sid}

\* C26: a cursor_move without document_id or without position delivers no
\* event at all and changes neither presence tracker, registry nor
\* transport rooms
C26_CursorSpamIgnored ==
    [][(/\ last'.op = "cursor_move"
        /\ (last'.document_id = None \/ last'.payload = None))
       => /\ sent' = EmptyBag
          /\ stateVars' = stateVars
          /\ registered_pairs' = registered_pairs]_vars

C26_Witness ==
    /\ last.op = "cursor_move"
    /\ last.document_id # None
    /\ last.payload = None
    /\ last.sid \in rooms[last.document_id]
    /\ \E c \in Live \ {last.sid} : c \in rooms[last.document_id]
    /\ sent = EmptyBag

\* C27: a disconnect cleanup that directly follows the disconnect cleanup of
\* the same connection returns an empty list, changes neither presence
\* tracker nor registry, and delivers no event
C27_DuplicateDisconnect ==
    [][(last'.op = "disconnect" /\ last'.repeat)
       => /\ result'.left_documents = {}
          /\ stateVars' = stateVars
          /\ registered_pairs' = registered_pairs
          /\ sent' = EmptyBag]_vars

C27_Witness ==
    /\ last.op = "disconnect"
    /\ last.repeat
    /\ result.left_documents = {}
    /\ \E d \in Documents : last.sid \in memberSessions(d)

\* C25: while a request_sync handler waits for the persistence read, the
\* presence lock is held only by a thread that is inside a tracker method:
\* no handler waits for the lock because of the read
C25_ReadOutsideLock ==
    \A t \in Threads :
        pc[t] = "sync_read" => (locked => \E t2 \in Threads \ {t} : InLock(t2))

C25_Witness ==
    \E t1, t2 \in Threads :
        /\ pc[t1] = "sync_read"
        /\ pc[t2] = "join_info"
        /\ locked
        /\ call[t1].document_id = call[t2].document_id

\* C30: once the disconnect handler of a connection c and every other
\* handler of c have ended, c is in no room of the tracker and has no
\* reverse-index and no session-info entry
C30_DisconnectIsTerminal ==
    \A c \in Sessions :
        (conn[c] = "closed" /\ \A t \in Threads : call[t].session_id # c)
            => /\ \A d \in Documents : c \notin memberSessions(d)
               /\ c \notin DOMAIN session_documents
               /\ c \notin DOMAIN session_info

C28_NoLostRegistration ==
    (\A t \in Threads : pc[t] = "idle")
        => \A p \in registered_pairs : p[2] \in sessionsFor(p[1])

\* C29: no call of register, unregister, send_notification_to_user or
\* broadcast_notification ends with an exception
C29_NoRegistryCallRaises ==
    \A t \in Threads : pc[t] # "raised"

\* C36: in every reachable state the tracker holds a session-info record for
\* a connection exactly when its reverse index holds a non-empty document set
\* for it; a connection that has left its last document has no record.
C36_InfoMatchesIndex ==
    \A c \in Sessions :
        (c \in DOMAIN session_info) <=> (reverseIndex(c) # {})

\* C37: a connection listed in the reverse index has a session-info record
\* with a non-empty user id, every pair disconnect_session returns carries
\* such a record, and no user_left of a disconnect has an empty user_id.
C37_LeftEntriesCarryUser ==
    /\ \A c \in DOMAIN session_documents :
          /\ c \in DOMAIN session_info
          /\ session_info[c].user_id # None
    /\ last.op = "disconnect" =>
          /\ \A p \in result.left_documents :
                p.user_info # NoInfo /\ p.user_info.user_id # None
          /\ \A e \in Delivered : e.event = "user_left" => e.user_id # None

\* a disconnect of a connection that is in two documents, whose user_left
\* reaches a peer
C37_Witness ==
    /\ last.op = "disconnect"
    /\ Cardinality(result.left_documents) = 2
    /\ \E e \in Delivered : e.event = "user_left" /\ e.user_id # None

\* C32: whenever no join or leave handler is in progress, a connected
\* connection is in the transport room of document d exactly when the
\* tracker's member list of d has an entry for it.
C32_RoomsAgreeWithPresence ==
    (\A t \in Threads : pc[t] = "idle") =>
        \A d \in Documents : \A c \in Live :
            (c \in rooms[d]) <=> (c \in memberSessions(d))

\* C33: a cursor_update or content_update for document d is delivered only
\* when the connection that sent the cursor_move or edit_content is itself a
\* member of d; a connection outside d causes no delivery to d's members.
C33_OnlyMembersRelay ==
    last.op \in {"cursor_move", "edit_content"} =>
        \A e \in Delivered :
            e.event \in {"cursor_update", "content_update"} =>
                last.sid \in memberSessions(e.document_id)

\* C34: one call of send_notification_to_user or broadcast_notification
\* delivers the notification at most once to any connection, also to a
\* connection registered under more than one user id.
C34_AtMostOncePerCall ==
    last.op \in {"send_notification_to_user", "broadcast_notification"} =>
        \A c \in Sessions :
            Cardinality({e \in Delivered : e.to = c}) <= 1
            /\ \A e \in Delivered : e.to = c => CopiesIn(e, sent) <= 1

\* C35: under fair scheduling every join, leave, disconnect and query that
\* starts completes and releases the lock; a thread asks for the lock only
\* when it does not hold it, and the lock is free whenever no tracker
\* operation is in progress.
C35_LockDeadlockFree ==
    /\ []((\A t \in Threads : pc[t] \in {"idle", "acquire"}) => ~locked)
    /\ [](\A t \in Threads : pc[t] = "acquire" => ~InLock(t))
    /\ \A t \in Threads : (pc[t] # "idle") ~> (pc[t] = "idle")
    /\ []<>(~locked)

\* a join that is at its member listing, holding the lock, while the other
\* thread waits for the lock
C35_Witness ==
    \E t, w \in Threads :
        /\ pc[t] = "join_list" /\ locked
        /\ pc[w] = "acquire"

\* the position of connection c's latest document_joined for d (0: none)
LatestJoined(c, d) ==
    LET at == {i \in DOMAIN received[c] :
                 received[c][i].event = "document_joined" /\ received[c][i].document_id = d}
    IN  IF at = {} THEN 0 ELSE CHOOSE i \in at : \A j \in at : j <= i

\* the peer set after the events i..Len of c's inbox, starting from view
RECURSIVE ApplyPresence(_, _, _, _)
ApplyPresence(c, d, i, view) ==
    IF i > Len(received[c]) THEN view
    ELSE LET e == received[c][i]
         IN  ApplyPresence(c, d, i + 1,
                 IF e.document_id # d THEN view
                 ELSE IF e.event = "user_joined" THEN view \cup {e.session_id}
                 ELSE IF e.event = "user_left" THEN view \ {e.session_id}
                 ELSE view)

\* the peers of d as connection c sees them
PeerView(c, d) ==
    LET i == LatestJoined(c, d)
    IN  ApplyPresence(c, d, i + 1,
            IF i = 0 THEN {} ELSE {u.session_id : u \in received[c][i].users})

\* C31: in every quiescent state (no handler in progress, every emitted
\* event delivered in emission order) the peer set a member c of d derives
\* from its latest document_joined and the user_joined / user_left events
\* after it is the set of the other connections in d's member list.
C31_PeerViewsConverge ==
    (\A t \in Threads : pc[t] = "idle") =>
        \A d \in Documents : \A c \in Live \cap memberSessions(d) :
            PeerView(c, d) = memberSessions(d) \ {c}
====
